---- MODULE Spec2Model ----
(***************************************************************************)
(* Model of the signal engine of the gold/silver dip detector:              *)
(* analyzer.MarketAnalyzer over a bundle of indicator series.               *)
(*                                                                          *)
(* Numbers.  An observation of a series is an integer number of hundredths  *)
(* (2.01 is 201, 104.00 is 10400).  A value the code derives by float       *)
(* arithmetic is a record [k, n, dn]: k = "num" stands for the exact        *)
(* rational n/dn hundredths (dn > 0), and "inf", "ninf", "nan" for the      *)
(* IEEE results numpy gives on a zero divisor.  k = "none" is Python's      *)
(* None.  Rounding error of float64 is not modelled.                        *)
(*                                                                          *)
(* A DataFrame is [present, rows]: rows is the sequence of its rows         *)
(* [d |-> day number, v |-> value] in index order; present = FALSE is a     *)
(* key the bundle does not hold (dict.get returns None).                    *)
(***************************************************************************)
EXTENDS Integers, Sequences, FiniteSets, TLC

VARIABLES indicators, signals, op, ret, market, first_run,
          cache, now, network, call, fetch, stored

\* the state of a DataFetcher and of the sources it reaches
fetching == <<cache, now, network, call, fetch, stored>>

vars == <<indicators, signals, op, ret, market, first_run, fetching>>

(***************************************************************************)
(* Float values                                                             *)
(***************************************************************************)
Num(n, dn) == [k |-> "num", n |-> n, dn |-> dn]

None == [k |-> "none", n |-> 0, dn |-> 1]

PosInf == [k |-> "inf", n |-> 0, dn |-> 1]

NegInf == [k |-> "ninf", n |-> 0, dn |-> 1]

NaN == [k |-> "nan", n |-> 0, dn |-> 1]

\* the float of an observation
Flt(v) == Num(v, 1)

\* a / b on numpy floats: a zero divisor gives inf, -inf or nan, no exception
Div(a, b) ==
    IF b > 0 THEN Num(a, b)
    ELSE IF b < 0 THEN Num(-a, -b)
    ELSE IF a > 0 THEN PosInf
    ELSE IF a < 0 THEN NegInf
    ELSE NaN

\* x > t and x < t for a float x and a threshold of t hundredths; every
\* comparison with nan is false
GT(x, t) == \/ x.k = "inf"
            \/ x.k = "num" /\ x.n > t * x.dn

LT(x, t) == \/ x.k = "ninf"
            \/ x.k = "num" /\ x.n < t * x.dn

\* x == t for a float x and t hundredths
EQ(x, t) == x.k = "num" /\ x.n = t * x.dn

(***************************************************************************)
(* DataFrames                                                               *)
(***************************************************************************)
Missing == [present |-> FALSE, rows |-> <<>>]

Frame(rows) == [present |-> TRUE, rows |-> rows]

EmptyFrame == Frame(<<>>)

\* df.empty
empty(df) == Len(df.rows) = 0

\* df.iloc[i] with Python's indexing: i >= 0 counts from the first row,
\* i < 0 from the last
iloc(df, i) == IF i >= 0 THEN df.rows[i + 1].v ELSE df.rows[Len(df.rows) + i + 1].v

(***************************************************************************)
(* Thresholds (hundredths)                                                  *)
(***************************************************************************)
vix_low == 1300

vix_high == 2000

gold_silver_high == 8500

gold_silver_low == 6500

real_yield_critical == 200

real_yield_move == 50

dxy_move == 200

inr_move == 100

equity_rally == 500

\* the lookback of the trend classifiers, in rows
Lookback == 30

(***************************************************************************)
(* Signal classifiers                                                       *)
(***************************************************************************)

\* prev_month: the reference observation of a trend
prev_month(df) == IF Len(df.rows) > Lookback THEN iloc(df, -Lookback) ELSE iloc(df, 0)

\* ((current - prev) / prev) * 100, in hundredths of a percent
pct_change(current, prev) == Div((current - prev) * 100 * 100, prev)

\* mutant: the thresholds taken inclusively
RealYieldSignalInclusive(change) ==
    IF ~LT(change, real_yield_move) THEN "BEARISH"
    ELSE IF ~GT(change, -real_yield_move) THEN "BULLISH"
    ELSE "NEUTRAL"

RealYieldSignal(change) ==
    IF GT(change, real_yield_move) THEN "BEARISH"
    ELSE IF LT(change, -real_yield_move) THEN "BULLISH"
    ELSE "NEUTRAL"

RealYieldStatus(change) ==
    IF GT(change, real_yield_move) THEN "Real yield rising - Negative for gold"
    ELSE IF LT(change, -real_yield_move) THEN "Real yield falling - Positive for gold"
    ELSE "Real yield stable"

\* mutant: critical from 2.0 on
RealYieldCriticalInclusive(current) == current >= real_yield_critical

RealYieldCritical(current) == current > real_yield_critical

analyze_real_yield(ind) ==
    LET real_yield == ind.real_yield IN
    IF ~real_yield.present
    THEN [status |-> "Error calculating real yield - Check FRED API key",
          signal |-> "NEUTRAL", value |-> None, change |-> Flt(0), critical |-> FALSE]
    ELSE IF empty(real_yield)
    THEN [status |-> "Real yield data unavailable - FRED API key may be invalid",
          signal |-> "NEUTRAL", value |-> None, change |-> Flt(0), critical |-> FALSE]
    ELSE LET current == iloc(real_yield, -1)
             change == Flt(current - prev_month(real_yield))
         IN [status |-> RealYieldStatus(change),
             signal |-> RealYieldSignal(change),
             value |-> Flt(current),
             change |-> change,
             critical |-> RealYieldCritical(current)]

\* mutant: the thresholds taken inclusively
DxySignalInclusive(change_pct) ==
    IF ~LT(change_pct, dxy_move) THEN "BEARISH"
    ELSE IF ~GT(change_pct, -dxy_move) THEN "BULLISH"
    ELSE "NEUTRAL"

DxySignal(change_pct) ==
    IF GT(change_pct, dxy_move) THEN "BEARISH"
    ELSE IF LT(change_pct, -dxy_move) THEN "BULLISH"
    ELSE "NEUTRAL"

DxyStatus(change_pct) ==
    IF GT(change_pct, dxy_move) THEN "DXY strengthening - Negative for gold"
    ELSE IF LT(change_pct, -dxy_move) THEN "DXY weakening - Positive for gold"
    ELSE "DXY stable"

analyze_dxy(ind) ==
    LET dxy == ind.dxy IN
    IF ~dxy.present
    THEN [status |-> "Error", signal |-> "NEUTRAL", value |-> None]
    ELSE IF empty(dxy)
    THEN [status |-> "No Data", signal |-> "NEUTRAL", value |-> None]
    ELSE LET current == iloc(dxy, -1)
             change_pct == pct_change(current, prev_month(dxy))
         IN [status |-> DxyStatus(change_pct),
             signal |-> DxySignal(change_pct),
             value |-> Flt(current),
             change_pct |-> change_pct]

\* mutant: a rising USD/INR read as bearish, as for the dollar index
InrSignalSwapped(change_pct) ==
    IF GT(change_pct, inr_move) THEN "BEARISH"
    ELSE IF LT(change_pct, -inr_move) THEN "BULLISH"
    ELSE "NEUTRAL"

InrSignal(change_pct) ==
    IF LT(change_pct, -inr_move) THEN "BEARISH"
    ELSE IF GT(change_pct, inr_move) THEN "BULLISH"
    ELSE "NEUTRAL"

InrStatus(change_pct) ==
    IF LT(change_pct, -inr_move) THEN "INR strengthening - Indian gold cheaper"
    ELSE IF GT(change_pct, inr_move) THEN "INR weakening - Indian gold expensive"
    ELSE "INR stable"

analyze_inr(ind) ==
    LET usdinr == ind.usdinr IN
    IF ~usdinr.present
    THEN [status |-> "Error", signal |-> "NEUTRAL", value |-> None]
    ELSE IF empty(usdinr)
    THEN [status |-> "No Data", signal |-> "NEUTRAL", value |-> None]
    ELSE LET current == iloc(usdinr, -1)
             change_pct == pct_change(current, prev_month(usdinr))
         IN [status |-> InrStatus(change_pct),
             signal |-> InrSignal(change_pct),
             value |-> Flt(current),
             change_pct |-> change_pct]

\* mutant: the thresholds taken inclusively
VixSignalInclusive(current_vix) ==
    IF current_vix <= vix_low THEN "BEARISH"
    ELSE IF current_vix >= vix_high THEN "BULLISH"
    ELSE "NEUTRAL"

VixSignal(current_vix) ==
    IF current_vix < vix_low THEN "BEARISH"
    ELSE IF current_vix > vix_high THEN "BULLISH"
    ELSE "NEUTRAL"

VixNote(current_vix) ==
    IF current_vix < vix_low THEN "VIX low - Risk-ON, bearish for gold"
    ELSE IF current_vix > vix_high THEN "VIX high - Risk-OFF, bullish for gold"
    ELSE "VIX neutral"

\* sp_return, nifty_return: the percent change against iloc[-30], and 0 for
\* a series of at most 30 rows
equity_return(df) ==
    IF Len(df.rows) > Lookback
    THEN pct_change(iloc(df, -1), iloc(df, -Lookback))
    ELSE Flt(0)

EquityNote(df, note) ==
    IF ~empty(df) /\ GT(equity_return(df), equity_rally) THEN <<note>> ELSE <<>>

\* ' | '.join(signals)
RECURSIVE Join(_)
Join(notes) ==
    IF Len(notes) = 0 THEN ""
    ELSE IF Len(notes) = 1 THEN notes[1]
    ELSE notes[1] \o " | " \o Join(Tail(notes))

\* mutant: a rallying index outvotes the VIX
analyze_risk_sentiment_equity_votes(ind) ==
    LET vix == ind.vix
        sp500 == ind.sp500
        nifty == ind.nifty
    IN
    IF ~vix.present \/ ~sp500.present \/ ~nifty.present
    THEN [status |-> "Error", signal |-> "NEUTRAL"]
    ELSE LET vix_notes == IF empty(vix) THEN <<>> ELSE <<VixNote(iloc(vix, -1))>>
             vix_signal == IF empty(vix) THEN "NEUTRAL" ELSE VixSignal(iloc(vix, -1))
             equity_notes == EquityNote(sp500, "S&P rallying - Bearish for gold")
                               \o EquityNote(nifty, "NIFTY rallying - Bearish for gold")
             notes == vix_notes \o equity_notes
         IN [status |-> IF Len(notes) > 0 THEN Join(notes) ELSE "No clear risk sentiment",
             signal |-> IF Len(equity_notes) > 0 THEN "BEARISH" ELSE vix_signal,
             vix |-> IF empty(vix) THEN None ELSE Flt(iloc(vix, -1))]

analyze_risk_sentiment(ind) ==
    LET vix == ind.vix
        sp500 == ind.sp500
        nifty == ind.nifty
    IN
    IF ~vix.present \/ ~sp500.present \/ ~nifty.present
    THEN [status |-> "Error", signal |-> "NEUTRAL"]
    ELSE LET vix_notes == IF empty(vix) THEN <<>> ELSE <<VixNote(iloc(vix, -1))>>
             vix_signal == IF empty(vix) THEN "NEUTRAL" ELSE VixSignal(iloc(vix, -1))
             notes == vix_notes
                        \o EquityNote(sp500, "S&P rallying - Bearish for gold")
                        \o EquityNote(nifty, "NIFTY rallying - Bearish for gold")
         IN [status |-> IF Len(notes) > 0 THEN Join(notes) ELSE "No clear risk sentiment",
             signal |-> vix_signal,
             vix |-> IF empty(vix) THEN None ELSE Flt(iloc(vix, -1))]

\* the rows of gold_silver_ratio hold floats (gold / silver)
\* mutant: the thresholds taken inclusively
RatioSignalInclusive(current_ratio) ==
    IF ~LT(current_ratio, gold_silver_high) THEN "BEARISH"
    ELSE IF ~GT(current_ratio, gold_silver_low) THEN "BULLISH"
    ELSE "NEUTRAL"

RatioSignal(current_ratio) ==
    IF GT(current_ratio, gold_silver_high) THEN "BEARISH"
    ELSE IF LT(current_ratio, gold_silver_low) THEN "BULLISH"
    ELSE "NEUTRAL"

RatioStatus(current_ratio) ==
    IF GT(current_ratio, gold_silver_high) THEN "Ratio high - Gold overvalued vs Silver"
    ELSE IF LT(current_ratio, gold_silver_low) THEN "Ratio low - Silver overheated"
    ELSE "Ratio normal"

\* mutant: an empty ratio series read as a ratio of zero
analyze_gold_silver_ratio_empty_as_zero(ind) ==
    LET ratio_data == ind.gold_silver_ratio IN
    IF ~ratio_data.present
    THEN [status |-> "Error", signal |-> "NEUTRAL", value |-> None]
    ELSE LET current_ratio == IF empty(ratio_data) THEN Flt(0) ELSE iloc(ratio_data, -1)
         IN [status |-> RatioStatus(current_ratio),
             signal |-> RatioSignal(current_ratio),
             value |-> current_ratio]

analyze_gold_silver_ratio(ind) ==
    LET ratio_data == ind.gold_silver_ratio IN
    IF ~ratio_data.present
    THEN [status |-> "Error", signal |-> "NEUTRAL", value |-> None]
    ELSE IF empty(ratio_data)
    THEN [status |-> "No Data", signal |-> "NEUTRAL", value |-> None]
    ELSE LET current_ratio == iloc(ratio_data, -1)
         IN [status |-> RatioStatus(current_ratio),
             signal |-> RatioSignal(current_ratio),
             value |-> current_ratio]

(***************************************************************************)
(* Series alignment and the divergence classifier                           *)
(***************************************************************************)
\* rows below which no correlation is computed
MinAligned == 30

\* rows the correlation is computed over (merged.iloc[-30:])
CorrWindow == 30

\* correlation cutoff, in tenths (-0.3)
corr_cutoff == -3

\* mutant: backward fill, the value of the earliest row dated on or after day d
ValueAtNext(rows, d) ==
    rows[Len(rows) + 1 - Cardinality({i \in 1..Len(rows) : rows[i].d >= d})].v

\* the value of the latest row dated on or before day d (the dates of a
\* series increase strictly, so that row is the k-th when k rows qualify)
ValueAt(rows, d) == rows[Cardinality({i \in 1..Len(rows) : rows[i].d <= d})].v

\* df.resample('D').ffill(): one row per day from the first to the last
\* date, each holding the latest observation on or before that day
resample(df) ==
    IF empty(df) THEN df
    ELSE LET first == df.rows[1].d
             last == df.rows[Len(df.rows)].d
         IN Frame([i \in 1..(last - first + 1) |->
                      [d |-> first + i - 1, v |-> ValueAt(df.rows, first + i - 1)]])

\* left.merge(right, left_index=True, right_index=True, how='inner'): the
\* rows [d, x, y] of the dates both frames hold
merge(left, right) ==
    LET InRight(r) == \E j \in 1..Len(right.rows) : right.rows[j].d = r.d
        RightAt(d) == right.rows[CHOOSE j \in 1..Len(right.rows) : right.rows[j].d = d].v
        kept == SelectSeq(left.rows, InRight)
    IN [i \in 1..Len(kept) |-> [d |-> kept[i].d, x |-> kept[i].v, y |-> RightAt(kept[i].d)]]

RECURSIVE SeqSum(_)
SeqSum(s) == IF Len(s) = 0 THEN 0 ELSE Head(s) + SeqSum(Tail(s))

\* Pearson correlation of the columns x and y of the rows w.  The value is
\* n / sqrt(dn) with n the covariance sum and dn the product of the two
\* variance sums, all taken on offsets from the first row (the correlation
\* does not change under a shift); a column that does not vary gives nan.
corr(w) ==
    LET n == Len(w)
        X == [i \in 1..n |-> w[i].x - w[1].x]
        Y == [i \in 1..n |-> w[i].y - w[1].y]
        sx == SeqSum(X)
        sy == SeqSum(Y)
        sxx == SeqSum([i \in 1..n |-> X[i] * X[i]])
        syy == SeqSum([i \in 1..n |-> Y[i] * Y[i]])
        sxy == SeqSum([i \in 1..n |-> X[i] * Y[i]])
        cov == n * sxy - sx * sy
        vx == n * sxx - sx * sx
        vy == n * syy - sy * sy
    IN IF vx = 0 \/ vy = 0 THEN NaN ELSE [k |-> "corr", n |-> cov, dn |-> vx * vy]

\* mutant: correlation >= -0.3
CorrFromCutoff(c) ==
    /\ c.k = "corr"
    /\ \/ c.n >= 0
       \/ c.n * c.n <= (corr_cutoff * corr_cutoff * c.dn) \div 100

\* correlation > -0.3, for c = n / sqrt(dn)
CorrAboveCutoff(c) ==
    /\ c.k = "corr"
    /\ \/ c.n >= 0
       \/ c.n * c.n <= (corr_cutoff * corr_cutoff * c.dn - 1) \div 100

DivergenceSignal(correlation) ==
    IF CorrAboveCutoff(correlation) THEN "BULLISH" ELSE "NEUTRAL"

DivergenceStatus(correlation) ==
    IF CorrAboveCutoff(correlation) THEN "Divergence detected - Hidden demand signal"
    ELSE "Normal correlation"

\* mutant: thirty aligned rows taken as too few
analyze_real_yield_divergence_over_thirty(ind) ==
    LET gold == ind.gold
        real_yield == ind.real_yield
    IN
    IF ~gold.present \/ (~empty(gold) /\ ~real_yield.present)
    THEN [status |-> "Data frequency mismatch", signal |-> "NEUTRAL"]
    ELSE IF empty(gold) \/ empty(real_yield)
    THEN [status |-> "No Data", signal |-> "NEUTRAL"]
    ELSE LET merged == merge(resample(gold), resample(real_yield)) IN
         IF Len(merged) <= MinAligned
         THEN [status |-> "Insufficient data for correlation", signal |-> "NEUTRAL"]
         ELSE LET correlation == corr(SubSeq(merged, Len(merged) - CorrWindow + 1, Len(merged)))
              IN [status |-> DivergenceStatus(correlation),
                  signal |-> DivergenceSignal(correlation),
                  correlation |-> correlation]

analyze_real_yield_divergence(ind) ==
    LET gold == ind.gold
        real_yield == ind.real_yield
    IN
    IF ~gold.present \/ (~empty(gold) /\ ~real_yield.present)
    THEN [status |-> "Data frequency mismatch", signal |-> "NEUTRAL"]
    ELSE IF empty(gold) \/ empty(real_yield)
    THEN [status |-> "No Data", signal |-> "NEUTRAL"]
    ELSE LET merged == merge(resample(gold), resample(real_yield)) IN
         IF Len(merged) < MinAligned
         THEN [status |-> "Insufficient data for correlation", signal |-> "NEUTRAL"]
         ELSE LET correlation == corr(SubSeq(merged, Len(merged) - CorrWindow + 1, Len(merged)))
              IN [status |-> DivergenceStatus(correlation),
                  signal |-> DivergenceSignal(correlation),
                  correlation |-> correlation]

(***************************************************************************)
(* Dip score                                                                *)
(***************************************************************************)
Factors == <<"Real Yield", "USD Strength", "Risk Sentiment", "INR Movement",
             "Gold-Silver Ratio", "Yield Divergence">>

\* the score a recommendation needs
Majority == 3

\* mutant: no entry for a classifier whose series the bundle does not hold
ChecklistOfHeldSeries(ind) ==
    (IF ind.real_yield.present THEN ("Real Yield" :> analyze_real_yield(ind)) ELSE <<>>)
    @@ (IF ind.dxy.present THEN ("USD Strength" :> analyze_dxy(ind)) ELSE <<>>)
    @@ (IF ind.vix.present THEN ("Risk Sentiment" :> analyze_risk_sentiment(ind)) ELSE <<>>)
    @@ (IF ind.usdinr.present THEN ("INR Movement" :> analyze_inr(ind)) ELSE <<>>)
    @@ (IF ind.gold_silver_ratio.present
        THEN ("Gold-Silver Ratio" :> analyze_gold_silver_ratio(ind)) ELSE <<>>)
    @@ (IF ind.gold.present
        THEN ("Yield Divergence" :> analyze_real_yield_divergence(ind)) ELSE <<>>)

\* mutant: the entries of the dollar index and of the rupee exchanged
ChecklistExchanged(ind) ==
    ("Real Yield" :> analyze_real_yield(ind))
    @@ ("USD Strength" :> analyze_inr(ind))
    @@ ("Risk Sentiment" :> analyze_risk_sentiment(ind))
    @@ ("INR Movement" :> analyze_dxy(ind))
    @@ ("Gold-Silver Ratio" :> analyze_gold_silver_ratio(ind))
    @@ ("Yield Divergence" :> analyze_real_yield_divergence(ind))

Checklist(ind) ==
    ("Real Yield" :> analyze_real_yield(ind))
    @@ ("USD Strength" :> analyze_dxy(ind))
    @@ ("Risk Sentiment" :> analyze_risk_sentiment(ind))
    @@ ("INR Movement" :> analyze_inr(ind))
    @@ ("Gold-Silver Ratio" :> analyze_gold_silver_ratio(ind))
    @@ ("Yield Divergence" :> analyze_real_yield_divergence(ind))

\* mutant: the NEUTRAL entries counted with those of the signal
CountWithNeutral(checklist, sig) ==
    Cardinality({f \in DOMAIN checklist : checklist[f].signal \in {sig, "NEUTRAL"}})

\* sum(1 for item in checklist.values() if item['signal'] == sig)
Count(checklist, sig) == Cardinality({f \in DOMAIN checklist : checklist[f].signal = sig})

\* mutant: the bearish rule tried first
RecommendationBearishFirst(bullish_count, bearish_count) ==
    IF bearish_count >= Majority THEN "AVOID / WAIT"
    ELSE IF bullish_count >= Majority THEN "GOOD ENTRY POINT"
    ELSE "NEUTRAL / WATCH"

Recommendation(bullish_count, bearish_count) ==
    IF bullish_count >= Majority THEN "GOOD ENTRY POINT"
    ELSE IF bearish_count >= Majority THEN "AVOID / WAIT"
    ELSE "NEUTRAL / WATCH"

Color(bullish_count, bearish_count) ==
    IF bullish_count >= Majority THEN "green"
    ELSE IF bearish_count >= Majority THEN "red"
    ELSE "orange"

get_dip_detection_score(ind) ==
    LET checklist == Checklist(ind)
        bullish_count == Count(checklist, "BULLISH")
        bearish_count == Count(checklist, "BEARISH")
    IN [checklist |-> checklist,
        bullish_count |-> bullish_count,
        bearish_count |-> bearish_count,
        recommendation |-> Recommendation(bullish_count, bearish_count),
        color |-> Color(bullish_count, bearish_count)]

\* mutant: the run that follows the construction of the analyzer marks its
\* risk-sentiment status
run_full_analysis_first_marked(ind) ==
    [real_yield |-> analyze_real_yield(ind),
     dxy |-> analyze_dxy(ind),
     risk_sentiment |-> [analyze_risk_sentiment(ind) EXCEPT
                            !.status = IF op = "__init__" THEN "first run" ELSE @],
     inr |-> analyze_inr(ind),
     gold_silver_ratio |-> analyze_gold_silver_ratio(ind),
     divergence |-> analyze_real_yield_divergence(ind),
     dip_score |-> get_dip_detection_score(ind)]

run_full_analysis(ind) ==
    [real_yield |-> analyze_real_yield(ind),
     dxy |-> analyze_dxy(ind),
     risk_sentiment |-> analyze_risk_sentiment(ind),
     inr |-> analyze_inr(ind),
     gold_silver_ratio |-> analyze_gold_silver_ratio(ind),
     divergence |-> analyze_real_yield_divergence(ind),
     dip_score |-> get_dip_detection_score(ind)]

(***************************************************************************)
(* Derived series of the data fetcher                                       *)
(*                                                                          *)
(* The calculate_* methods take the series their fetches returned.  A fetch *)
(* that failed returned an empty frame.                                     *)
(***************************************************************************)
\* CPI observations from which the year-over-year change is taken
MinCpiYearly == 12

\* days of the year-over-year change
YearPeriods == 365

\* days of the month-over-month change
MonthPeriods == 30

\* the month-over-month change is annualized by this factor
Annualize == 12

\* a - b on floats, a a number
Sub(a, b) ==
    IF b.k = "num" THEN Num(a.n * b.dn - b.n * a.dn, a.dn * b.dn)
    ELSE IF b.k = "inf" THEN NegInf
    ELSE IF b.k = "ninf" THEN PosInf
    ELSE NaN

\* a float as the observation of a series: its number of hundredths.  A value
\* off the grid of hundredths stays a float record, which the classifiers of
\* this model do not take.
Observation(x) == IF x.k = "num" /\ x.n % x.dn = 0 THEN x.n \div x.dn ELSE x

\* mutant: the month-over-month change annualized, however many the CPI
\* observations
inflation_month_over_month(cpi) ==
    LET cpi_daily == resample(cpi).rows
    IN Frame([i \in 1..Len(cpi_daily) |->
                 [d |-> cpi_daily[i].d,
                  v |-> IF i <= MonthPeriods THEN NaN
                        ELSE Div((cpi_daily[i].v - cpi_daily[i - MonthPeriods].v)
                                     * Annualize * 100 * 100,
                                 cpi_daily[i - MonthPeriods].v)]])

\* cpi_yoy: the percent change of the daily-filled CPI over 365 days, or over
\* 30 days times 12 when there are fewer than 12 CPI observations; nan on the
\* first `periods` days
inflation(cpi) ==
    LET cpi_daily == resample(cpi).rows
        yearly == Len(cpi.rows) >= MinCpiYearly
        periods == IF yearly THEN YearPeriods ELSE MonthPeriods
        factor == IF yearly THEN 100 ELSE Annualize * 100
    IN Frame([i \in 1..Len(cpi_daily) |->
                 [d |-> cpi_daily[i].d,
                  v |-> IF i <= periods THEN NaN
                        ELSE Div((cpi_daily[i].v - cpi_daily[i - periods].v) * factor * 100,
                                 cpi_daily[i - periods].v)]])

\* merged.dropna()
dropna(merged) == SelectSeq(merged, LAMBDA r : r.y.k # "nan")

\* mutant: the inflation less the treasury yield
calculate_real_yield_inverted(treasury, cpi) ==
    IF empty(treasury) \/ empty(cpi) THEN EmptyFrame
    ELSE LET merged == dropna(merge(treasury, inflation(cpi)))
         IN Frame([i \in 1..Len(merged) |->
                      [d |-> merged[i].d,
                       v |-> Observation(Sub(merged[i].y, Flt(merged[i].x)))]])

\* calculate_real_yield, on the treasury and CPI series fetched
calculate_real_yield(treasury, cpi) ==
    IF empty(treasury) \/ empty(cpi) THEN EmptyFrame
    ELSE LET merged == dropna(merge(treasury, inflation(cpi)))
         IN Frame([i \in 1..Len(merged) |->
                      [d |-> merged[i].d,
                       v |-> Observation(Sub(Flt(merged[i].x), merged[i].y))]])

\* gold / silver, in hundredths (merged['gold'] / merged['silver'])
RatioOf(gold, silver) == Div(gold * 100, silver)

\* calculate_gold_silver_ratio, on the gold and silver series fetched
calculate_gold_silver_ratio(gold, silver) ==
    IF empty(gold) \/ empty(silver) THEN EmptyFrame
    ELSE LET merged == merge(gold, silver)
         IN Frame([i \in 1..Len(merged) |->
                      [d |-> merged[i].d, v |-> RatioOf(merged[i].x, merged[i].y)]])

(***************************************************************************)
(* Wide numbers.  The India prices are products too large for the integers  *)
(* of the checker, so a product is held exactly as a fraction: num is a     *)
(* natural number in limbs of three decimal digits, least significant       *)
(* first, and den the sequence of the divisors applied.  The value is       *)
(* num / (den[1] * den[2] * ...) hundredths.                                *)
(***************************************************************************)
RECURSIVE BigOf(_)
BigOf(n) == IF n < 1000 THEN <<n>> ELSE <<n % 1000>> \o BigOf(n \div 1000)

\* x * k + carry
RECURSIVE BigTimes(_, _, _)
BigTimes(x, k, carry) ==
    IF Len(x) = 0 THEN (IF carry = 0 THEN <<>> ELSE BigOf(carry))
    ELSE LET t == Head(x) * k + carry
         IN <<t % 1000>> \o BigTimes(Tail(x), k, t \div 1000)

\* x times every factor
RECURSIVE BigProd(_, _)
BigProd(x, factors) ==
    IF Len(factors) = 0 THEN x
    ELSE BigProd(BigTimes(x, Head(factors), 0), Tail(factors))

BigLimb(x, i) == IF i <= Len(x) THEN x[i] ELSE 0

BigEq(x, y) ==
    \A i \in 1..(Len(x) + Len(y)) : BigLimb(x, i) = BigLimb(y, i)

BigLess(x, y) ==
    \E i \in 1..(Len(x) + Len(y)) :
        /\ BigLimb(x, i) < BigLimb(y, i)
        /\ \A j \in (i + 1)..(Len(x) + Len(y)) : BigLimb(x, j) = BigLimb(y, j)

\* the wide float of an observation
Wide(v) == [num |-> BigOf(v), den |-> <<>>]

\* w * v for an observation v: hundredths times hundredths, in hundredths
TimesObservation(w, v) == [num |-> BigTimes(w.num, v, 0), den |-> w.den \o <<100>>]

\* w * (n / dn)
TimesRatio(w, ratio) ==
    [num |-> BigTimes(w.num, ratio.n, 0), den |-> w.den \o <<ratio.dn>>]

\* a == b and a < b on wide floats
WideEq(a, b) == BigEq(BigProd(a.num, b.den), BigProd(b.num, a.den))

WideLess(a, b) == BigLess(BigProd(a.num, b.den), BigProd(b.num, a.den))

\* mutant: the avoirdupois ounce of 28.3495 grams
OZ_TO_10G_AVOIRDUPOIS == [n |-> 10 * 10000, dn |-> 283495]

\* OZ_TO_10G = 10 / 31.1035
OZ_TO_10G == [n |-> 10 * 10000, dn |-> 311035]

\* mutant: the markup of 1.23 the comment beside it speaks of
INDIAN_MARKUP_OF_COMMENT == [n |-> 123, dn |-> 100]

\* INDIAN_MARKUP = 1.13
INDIAN_MARKUP == [n |-> 113, dn |-> 100]

\* calculate_indian_gold_price, on the gold and USD/INR series fetched: the
\* rows [d, gold_inr, gold_usd_10g, usdinr] of the dates both series hold
calculate_indian_gold_price(gold, usdinr) ==
    IF empty(gold) \/ empty(usdinr) THEN EmptyFrame
    ELSE LET merged == merge(gold, usdinr)
             gold_usd(i) == Wide(merged[i].x)
             base_price(i) == TimesRatio(TimesObservation(gold_usd(i), merged[i].y), OZ_TO_10G)
         IN Frame([i \in 1..Len(merged) |->
                      [d |-> merged[i].d,
                       gold_inr |-> TimesRatio(base_price(i), INDIAN_MARKUP),
                       gold_usd_10g |-> TimesRatio(gold_usd(i), OZ_TO_10G),
                       usdinr |-> merged[i].y]])

\* the bundle get_market_indicators builds of the thirteen series its
\* fetches returned, in the order it makes them: treasury and CPI (inside
\* calculate_real_yield), DXY, gold, silver, USD/INR, VIX, S&P 500, NIFTY,
\* then gold and silver again (inside calculate_gold_silver_ratio) and gold
\* and USD/INR again (inside calculate_indian_gold_price)
indicators_of(fetched) ==
    [real_yield |-> calculate_real_yield(fetched[1], fetched[2]),
     dxy |-> fetched[3],
     gold |-> fetched[4],
     silver |-> fetched[5],
     usdinr |-> fetched[6],
     vix |-> fetched[7],
     sp500 |-> fetched[8],
     nifty |-> fetched[9],
     gold_silver_ratio |-> calculate_gold_silver_ratio(fetched[10], fetched[11]),
     indian_gold |-> calculate_indian_gold_price(fetched[12], fetched[13])]

\* get_market_indicators when every fetch returns what the sources serve:
\* the raw series and the three derived ones
get_market_indicators(m) ==
    indicators_of(<<m.treasury, m.cpi, m.dxy, m.gold, m.silver, m.usdinr,
                    m.vix, m.sp500, m.nifty, m.gold, m.silver, m.gold, m.usdinr>>)

(***************************************************************************)
(* Fetching.  time.time() is counted in half seconds, the unit of the       *)
(* sleeps of get_yahoo_data.  A request takes no time of its own.           *)
(***************************************************************************)
HalfSeconds(seconds) == 2 * seconds

\* self.cache_timeout, in seconds
cache_timeout == 300

\* retries of get_yahoo_data when the caller gives none
DefaultRetries == 3

ENDPOINTS ==
    [us_10y |-> "DGS10", us_cpi |-> "CPIAUCSL", dxy |-> "DTWEXBGS", vix |-> "^VIX",
     sp500 |-> "^GSPC", nifty |-> "^NSEI", gold |-> "GC=F", silver |-> "SI=F",
     usdinr |-> "USDINR=X"]

\* cache_key = f"{ticker}_{period}_{interval}"
cache_key(ticker, period, interval) == ticker \o "_" \o period \o "_" \o interval

\* mutant: an entry of exactly cache_timeout seconds still served
cached_through_timeout(c, key, t) ==
    /\ key \in DOMAIN c
    /\ t - c[key].cached_time <= HalfSeconds(cache_timeout)

\* cache_key in self.cache and time.time() - cached_time < self.cache_timeout
cached(c, key, t) ==
    /\ key \in DOMAIN c
    /\ t - c[key].cached_time < HalfSeconds(cache_timeout)

\* self.cache[cache_key] = (result, time.time())
cache_put(c, key, result, t) == (key :> [cached_data |-> result, cached_time |-> t]) @@ c

\* time.sleep(1.5 + (attempt * 1)): 1.5 s, 2.5 s, 3.5 s
backoff(attempt) == 3 + HalfSeconds(attempt)

\* time.sleep(1) before yf.download
download_delay == HalfSeconds(1)

\* time.sleep(3) before the next attempt
retry_delay == HalfSeconds(3)

\* mutant: one attempt more than retries
last_attempt_after_retries(attempt, retries) == attempt >= retries

\* the attempt is the last of range(retries): not attempt < retries - 1
last_attempt(attempt, retries) == attempt >= retries - 1

\* the series a source holds for a ticker
series_of(m, ticker) ==
    IF ticker = ENDPOINTS.us_10y THEN m.treasury
    ELSE IF ticker = ENDPOINTS.us_cpi THEN m.cpi
    ELSE IF ticker = ENDPOINTS.dxy THEN m.dxy
    ELSE IF ticker = ENDPOINTS.vix THEN m.vix
    ELSE IF ticker = ENDPOINTS.sp500 THEN m.sp500
    ELSE IF ticker = ENDPOINTS.nifty THEN m.nifty
    ELSE IF ticker = ENDPOINTS.gold THEN m.gold
    ELSE IF ticker = ENDPOINTS.silver THEN m.silver
    ELSE IF ticker = ENDPOINTS.usdinr THEN m.usdinr
    ELSE EmptyFrame

\* the Close column Yahoo holds for a ticker and a period: the year, or the
\* last five days
history(m, ticker, period) ==
    LET df == series_of(m, ticker) IN
    IF period = "1y" \/ empty(df) THEN df
    ELSE Frame(SelectSeq(df.rows, LAMBDA r : r.d > df.rows[Len(df.rows)].d - 5))

(***************************************************************************)
(* Input series                                                             *)
(***************************************************************************)
\* the longest series, in rows
MaxLen == 32

Lens == {1, 2} \cup ((Lookback - 1)..MaxLen)

\* n daily rows: first, first + step, first + 2 step, ..., and last as the
\* n-th
Ramp(n, first, step, last) ==
    [i \in 1..n |-> [d |-> i, v |-> IF i = n THEN last ELSE first + step * (i - 1)]]

\* the rows of a series observed on the given days
Dated(days, values) == [i \in 1..Len(days) |-> [d |-> days[i], v |-> values[i]]]

\* two observations, on day 1 and on day `day`
Pair(day, first, last) == <<[d |-> 1, v |-> first], [d |-> day, v |-> last]>>

RampSet(firsts, deltas) ==
    {Frame(Ramp(n, f, s, f + dl)) : n \in Lens, f \in firsts, s \in {0, 1}, dl \in deltas}

NonNegative(df) == \A i \in 1..Len(df.rows) : df.rows[i].v >= 0

RealYieldFine == RampSet({150, 251}, {-52, -51, -50, -49, 0, 49, 50, 51, 52})

DxyFine ==
    {df \in RampSet({0, 10000}, {-201, -200, -199, 0, 199, 200, 201, 400}) : NonNegative(df)}

UsdInrFine ==
    {df \in RampSet({0, 8300}, {-84, -83, -82, 0, 82, 83, 84}) : NonNegative(df)}

VixFine ==
    {Frame(Ramp(n, 1600, 0, v)) : n \in Lens,
        v \in {1200, 1299, 1300, 1301, 1600, 1999, 2000, 2001, 2100}}

EquityFine ==
    {df \in RampSet({0, 10000}, {-100, 0, 499, 500, 501, 502}) : NonNegative(df)}

RatioFine ==
    {Frame([i \in 1..n |-> [d |-> i, v |-> IF i = n THEN r ELSE RatioOf(7500, 100)]]) :
        n \in {1, 2},
        r \in {RatioOf(6000, 100), RatioOf(6499, 100), RatioOf(6500, 100),
               RatioOf(6501, 100), RatioOf(7500, 100), RatioOf(8499, 100),
               RatioOf(8500, 100), RatioOf(8501, 100), RatioOf(9000, 100),
               RatioOf(200000, 0), RatioOf(0, 0)}}

\* an index 6 percent above its level of 29 and 30 rows before
EquityRally == Frame(Ramp(31, 10000, 0, 10600))

\* an index of two observations, the second 6 percent above the first
EquityShort == Frame(Pair(2, 10000, 10600))

\* gold on the given days of a month of 31, at 2000.00 plus 0.04 on the days
\* `fours` and 0.01 on the days `ones`
GoldPattern(days, fours, ones) ==
    Frame(SelectSeq([i \in 1..31 |->
                        [d |-> i,
                         v |-> 200000 + (IF i \in fours THEN 4 ELSE IF i \in ones THEN 1 ELSE 0)]],
                    LAMBDA r : r.d \in days))

\* gold against a real yield that steps up on day 7: correlations of 1, -1,
\* about -0.29, exactly -0.3 and about -0.31 over days 2 to 31, a flat
\* price, a month with days unobserved, and twenty days only
GoldFine ==
    {GoldPattern(1..31, {}, 7..31),
     GoldPattern(1..31, {}, 1..6),
     GoldPattern(1..31, {2, 3}, 7..29),
     GoldPattern(1..31, {2, 3}, 7..28),
     GoldPattern(1..31, {2, 3}, 7..27),
     GoldPattern(1..31, {}, {}),
     GoldPattern((1..31) \ {13, 14, 20, 21}, {2, 3}, 7..28),
     GoldPattern(1..20, {2, 3}, 7..20)}

\* a real yield observed on a first day, stepping from 2.00 to 2.01 on day 7
\* when first observed before, and observed last on another day; and one
\* that does not move
YieldStepFine ==
    {Frame(Dated(<<first, 7, last>>, <<200, 201, 201>>)) :
        first \in {1, 2, 3}, last \in {30, 31, 40}}
    \cup {Frame(Dated(<<12, 31>>, <<200, 201>>)), Frame(Dated(<<1, 31>>, <<200, 200>>))}

AllEmpty ==
    [real_yield |-> EmptyFrame, dxy |-> EmptyFrame, vix |-> EmptyFrame,
     sp500 |-> EmptyFrame, nifty |-> EmptyFrame, usdinr |-> EmptyFrame,
     gold |-> EmptyFrame, gold_silver_ratio |-> EmptyFrame]

\* bundles in which one series is drawn from a fine grid around its
\* thresholds and the others are empty
FineBundles ==
    {[AllEmpty EXCEPT !.real_yield = df] : df \in RealYieldFine}
    \cup {[AllEmpty EXCEPT !.dxy = df] : df \in DxyFine}
    \cup {[AllEmpty EXCEPT !.usdinr = df] : df \in UsdInrFine}
    \cup {[AllEmpty EXCEPT !.vix = df, !.sp500 = eq, !.nifty = nf] :
              df \in VixFine, eq \in {EmptyFrame, EquityRally},
              nf \in {EmptyFrame, EquityShort}}
    \cup {[AllEmpty EXCEPT !.sp500 = df] : df \in EquityFine}
    \cup {[AllEmpty EXCEPT !.nifty = df] : df \in EquityFine}
    \cup {[AllEmpty EXCEPT !.gold_silver_ratio = df] : df \in RatioFine}
    \cup {[AllEmpty EXCEPT !.gold = g, !.real_yield = ry] :
              g \in GoldFine, ry \in YieldStepFine}

\* gold flat at 2000.00 for 30 days, then one hundredth up or down
GoldUp == Frame(Ramp(31, 200000, 0, 200001))

GoldDown == Frame(Ramp(31, 200000, 0, 199999))

RealYieldFalling == Frame(Pair(2, 251, 200))

RealYieldRising == Frame(Pair(2, 150, 201))

\* rising, and long enough to be correlated with gold
RealYieldRisingLong == Frame(Pair(31, 150, 201))

DxyUp == Frame(Pair(2, 10000, 10400))

DxyDown == Frame(Pair(2, 10000, 9700))

VixLow == Frame(Pair(2, 1600, 1200))

VixHigh == Frame(Pair(2, 1600, 2100))

UsdInrUp == Frame(Pair(2, 8300, 8400))

UsdInrDown == Frame(Pair(2, 8300, 8200))

RatioHigh == Frame(<<[d |-> 1, v |-> RatioOf(9000, 100)]>>)

RatioLow == Frame(<<[d |-> 1, v |-> RatioOf(6000, 100)]>>)

\* bundles without a missing key, each series empty or one that drives its
\* classifier to BULLISH or to BEARISH
SignalBundles ==
    [real_yield : {EmptyFrame, RealYieldFalling, RealYieldRising, RealYieldRisingLong},
     dxy : {EmptyFrame, DxyUp, DxyDown},
     vix : {EmptyFrame, VixLow, VixHigh},
     sp500 : {EmptyFrame, EquityRally},
     nifty : {EmptyFrame},
     usdinr : {EmptyFrame, UsdInrUp, UsdInrDown},
     gold : {GoldUp, GoldDown},
     gold_silver_ratio : {EmptyFrame, RatioHigh, RatioLow}]

\* bundles in which every series is missing, empty or present
AvailabilityBundles ==
    [real_yield : {Missing, EmptyFrame, RealYieldRisingLong},
     dxy : {Missing, EmptyFrame, DxyUp},
     vix : {Missing, EmptyFrame, VixHigh},
     sp500 : {Missing, EmptyFrame, EquityRally},
     nifty : {Missing, EmptyFrame, EquityRally},
     usdinr : {Missing, EmptyFrame, UsdInrDown},
     gold : {Missing, EmptyFrame, GoldUp},
     gold_silver_ratio : {Missing, EmptyFrame, RatioLow}]

CoarseBundles == SignalBundles \cup AvailabilityBundles

\* what the sources serve when every fetch fails
NoMarket ==
    [treasury |-> EmptyFrame, cpi |-> EmptyFrame, dxy |-> EmptyFrame,
     gold |-> EmptyFrame, silver |-> EmptyFrame, usdinr |-> EmptyFrame,
     vix |-> EmptyFrame, sp500 |-> EmptyFrame, nifty |-> EmptyFrame]

\* the 10-year yield at 3.00 on day 31 and around it afterwards
TreasuryFetched ==
    {EmptyFrame}
    \cup {Frame(Dated(<<30, 31, 32, 366>>, <<295, 300, t, t>>)) : t \in {299, 300, 301, 360}}

\* three CPI observations a month apart (inflation 0, 1 or 2 percent
\* annualized), and thirteen spanning a year (1 percent year over year)
CpiYear ==
    Frame([i \in 1..13 |->
              IF i < 13 THEN [d |-> 1 + 30 * (i - 1), v |-> 30000]
              ELSE [d |-> 366, v |-> 30300]])

\* n CPI observations, all but the last a month apart from day 1, the last
\* on day 366 and 1 percent above the others
CpiOverYear(n) ==
    Frame([i \in 1..n |->
              IF i < n THEN [d |-> 1 + 30 * (i - 1), v |-> 30000]
              ELSE [d |-> 366, v |-> 30300]])

\* n consecutive monthly CPI observations from day 1, each 0.25 above the one
\* before
CpiMonths(n) == Frame([i \in 1..n |-> [d |-> 1 + 30 * (i - 1), v |-> 30000 + 25 * (i - 1)]])

CpiFetched ==
    {EmptyFrame, CpiYear, CpiOverYear(11), CpiOverYear(12), CpiMonths(11), CpiMonths(12),
     Frame(Dated(<<1, 30>>, <<30000, 30025>>))}
    \cup {Frame(Dated(<<1, 31, 32>>, <<30000, c, c>>)) : c \in {30000, 30025, 30050}}

\* gold on days 1, 2 and 4
GoldFetched ==
    {EmptyFrame}
    \cup {Frame(Dated(<<1, 2, 4>>, <<199900, 200000, g>>)) : g \in {0, 200000, 212500}}

\* silver on days 1, 2 and 4, or on days 1 to 3
SilverFetched ==
    {EmptyFrame, Frame(Dated(<<1, 2, 3>>, <<2500, 2500, 2500>>))}
    \cup {Frame(Dated(<<1, 2, 4>>, <<2500, 2500, sv>>)) : sv \in {0, 2500, 4000}}

\* USD/INR on days 2 to 4, or on days 2 and 4 from zero
UsdInrFetched ==
    {EmptyFrame, Frame(Dated(<<2, 4>>, <<0, 8300>>))}
    \cup {Frame(Dated(<<2, 3, 4>>, <<8250, 8300, u>>)) : u \in {8300, 8400}}

DxyFetched ==
    {Frame(Dated(<<1, 2>>, <<first, last>>)) : first \in {0, 10000}, last \in {0, 10000}}

Markets ==
    {[NoMarket EXCEPT !.treasury = t, !.cpi = c] : t \in TreasuryFetched, c \in CpiFetched}
    \cup {[NoMarket EXCEPT !.gold = g, !.silver = sv, !.usdinr = u] :
              g \in GoldFetched, sv \in SilverFetched, u \in UsdInrFetched}
    \cup {[NoMarket EXCEPT !.dxy = df] : df \in DxyFetched}
    \cup {[NoMarket EXCEPT !.vix = v, !.sp500 = sp, !.nifty = nf] :
              v \in {EmptyFrame, VixHigh}, sp \in {EmptyFrame, EquityRally},
              nf \in {EmptyFrame, EquityRally}}

(***************************************************************************)
(* The analyzer as a state machine: MarketAnalyzer(indicators), then any    *)
(* sequence of calls; op and ret are the last call and what it returned.    *)
(* market is what the data sources serve to the fetcher.  first_run is a    *)
(* history variable: the bundle and the result of the first                 *)
(* run_full_analysis of the behaviour, and whether a later run took the     *)
(* same bundle again.                                                       *)
(*                                                                          *)
(* The fetcher: cache is self.cache, now is time.time(), network is how the *)
(* sources answer at present and how often that has changed, call is the    *)
(* operation of the fetcher under way (the fetches it has still to make,    *)
(* the series fetched so far, the attempt of the get_yahoo_data loop).       *)
(* fetch and stored are history variables: the latest get_yahoo_data call   *)
(* (its arguments, the time of its cache lookup, whether the cache served   *)
(* it, the outcome of each attempt, what it returned), and for every        *)
(* (ticker, period, interval) the series last stored and when.              *)
(***************************************************************************)
\* no operation of the fetcher under way; calls counts those begun
Idle == [pc |-> "idle", plan |-> <<>>, fetched |-> <<>>, attempt |-> 0, calls |-> 0]

\* no get_yahoo_data call made yet
NoFetch ==
    [ticker |-> "", period |-> "", interval |-> "", retries |-> 0, at |-> 0,
     hit |-> FALSE, outcomes |-> <<>>, data |-> EmptyFrame, done |-> FALSE]

\* DataFetcher(): an empty cache, and sources that answer as given
FetcherConstructed(answers) ==
    /\ cache = <<>>
    /\ now = 0
    /\ network = [answers |-> answers, changes |-> 0]
    /\ call = Idle
    /\ fetch = NoFetch
    /\ stored = <<>>

Constructed(bundles) ==
    /\ indicators \in bundles
    /\ signals = <<>>
    /\ op = "__init__"
    /\ ret = None
    /\ market = NoMarket
    /\ first_run = None
    /\ FetcherConstructed("history")

Init == Constructed(CoarseBundles)

InitFine == Constructed(FineBundles)

AnalyzeRealYield ==
    /\ op' = "analyze_real_yield"
    /\ ret' = analyze_real_yield(indicators)
    /\ UNCHANGED <<indicators, signals, market, first_run, fetching>>

AnalyzeDxy ==
    /\ op' = "analyze_dxy"
    /\ ret' = analyze_dxy(indicators)
    /\ UNCHANGED <<indicators, signals, market, first_run, fetching>>

AnalyzeRiskSentiment ==
    /\ op' = "analyze_risk_sentiment"
    /\ ret' = analyze_risk_sentiment(indicators)
    /\ UNCHANGED <<indicators, signals, market, first_run, fetching>>

AnalyzeInr ==
    /\ op' = "analyze_inr"
    /\ ret' = analyze_inr(indicators)
    /\ UNCHANGED <<indicators, signals, market, first_run, fetching>>

AnalyzeGoldSilverRatio ==
    /\ op' = "analyze_gold_silver_ratio"
    /\ ret' = analyze_gold_silver_ratio(indicators)
    /\ UNCHANGED <<indicators, signals, market, first_run, fetching>>

AnalyzeRealYieldDivergence ==
    /\ op' = "analyze_real_yield_divergence"
    /\ ret' = analyze_real_yield_divergence(indicators)
    /\ UNCHANGED <<indicators, signals, market, first_run, fetching>>

GetDipDetectionScore ==
    /\ op' = "get_dip_detection_score"
    /\ ret' = get_dip_detection_score(indicators)
    /\ UNCHANGED <<indicators, signals, market, first_run, fetching>>

RunFullAnalysis ==
    /\ op' = "run_full_analysis"
    /\ ret' = run_full_analysis(indicators)
    /\ first_run' = IF first_run = None
                    THEN [bundle |-> indicators, result |-> ret', again |-> FALSE]
                    ELSE [first_run EXCEPT !.again = @ \/ indicators = first_run.bundle]
    /\ UNCHANGED <<indicators, signals, market, fetching>>

Next ==
    \/ AnalyzeRealYield
    \/ AnalyzeDxy
    \/ AnalyzeRiskSentiment
    \/ AnalyzeInr
    \/ AnalyzeGoldSilverRatio
    \/ AnalyzeRealYieldDivergence
    \/ GetDipDetectionScore
    \/ RunFullAnalysis

Spec == Init /\ [][Next]_vars

SpecFine == InitFine /\ [][Next]_vars

(***************************************************************************)
(* The fetcher and the analyzer built on what it fetched:                   *)
(* DataFetcher(), then calculate_* and get_market_indicators calls, and     *)
(* MarketAnalyzer(indicators) on a bundle get_market_indicators returned.   *)
(***************************************************************************)
\* the value of indicators while no analyzer has been built
NoAnalyzer == [built |-> FALSE]

InitFetch ==
    /\ market \in Markets
    /\ indicators = NoAnalyzer
    /\ signals = <<>>
    /\ op = "DataFetcher"
    /\ ret = None
    /\ first_run = None
    /\ FetcherConstructed("history")

CalculateRealYield ==
    /\ op' = "calculate_real_yield"
    /\ ret' = calculate_real_yield(market.treasury, market.cpi)
    /\ UNCHANGED <<indicators, signals, market, first_run, fetching>>

CalculateGoldSilverRatio ==
    /\ op' = "calculate_gold_silver_ratio"
    /\ ret' = calculate_gold_silver_ratio(market.gold, market.silver)
    /\ UNCHANGED <<indicators, signals, market, first_run, fetching>>

CalculateIndianGoldPrice ==
    /\ op' = "calculate_indian_gold_price"
    /\ ret' = calculate_indian_gold_price(market.gold, market.usdinr)
    /\ UNCHANGED <<indicators, signals, market, first_run, fetching>>

GetMarketIndicators ==
    /\ op' = "get_market_indicators"
    /\ ret' = get_market_indicators(market)
    /\ UNCHANGED <<indicators, signals, market, first_run, fetching>>

\* analyzer = MarketAnalyzer(indicators), on the bundle just fetched
MarketAnalyzerInit ==
    /\ op = "get_market_indicators"
    /\ indicators' = ret
    /\ signals' = <<>>
    /\ op' = "__init__"
    /\ ret' = None
    /\ UNCHANGED <<market, first_run, fetching>>

NextFetch ==
    \/ CalculateRealYield
    \/ CalculateGoldSilverRatio
    \/ CalculateIndianGoldPrice
    \/ GetMarketIndicators
    \/ MarketAnalyzerInit
    \/ (indicators # NoAnalyzer /\ Next)

SpecFetch == InitFetch /\ [][NextFetch]_vars

(***************************************************************************)
(* The fetcher step by step: an operation is the sequence of its fetches,   *)
(* a get_yahoo_data call is its cache lookup and then one step for every    *)
(* pass of its retry loop, between which the network may change.            *)
(***************************************************************************)
\* operations begun in a behaviour
MaxCalls == 3

\* changes of the network in a behaviour
MaxChanges == 1

\* the clock up to which time passes between operations, in half seconds
MaxClock == 1300

\* how Yahoo answers: Ticker.history returns the series; history returns
\* nothing and yf.download the series; both return nothing (or download
\* raises); history raises.  FRED answers but when requests raise.
Answers == {"history", "download", "empty", "error"}

\* the time that passes between two operations, in half seconds
Waits == {550, 599, 600}

\* a fetch an operation makes after sleeping `sleep` half seconds
YahooSite(ticker, period, interval, retries, sleep) ==
    [source |-> "yahoo", ticker |-> ticker, period |-> period, interval |-> interval,
     retries |-> retries, sleep |-> sleep]

FredSite(series_id, sleep) ==
    [source |-> "fred", ticker |-> series_id, period |-> "", interval |-> "",
     retries |-> 0, sleep |-> sleep]

\* self.get_yahoo_data(ENDPOINTS[name]) after time.sleep(seconds)
Getter(name, seconds) ==
    YahooSite(ENDPOINTS[name], "1y", "1d", DefaultRetries, HalfSeconds(seconds))

\* the fetches of get_market_indicators and the sleeps before them
MarketPlan ==
    <<FredSite(ENDPOINTS.us_10y, 0), FredSite(ENDPOINTS.us_cpi, 0),
      FredSite(ENDPOINTS.dxy, HalfSeconds(1)),
      Getter("gold", 2), Getter("silver", 2), Getter("usdinr", 2),
      Getter("vix", 2), Getter("sp500", 2), Getter("nifty", 2),
      Getter("gold", 0), Getter("silver", 0),
      Getter("gold", 0), Getter("usdinr", 0)>>

\* get_fred_data: the observations, or an empty frame when the request fails
get_fred_data(m, series_id, answers) ==
    IF answers = "error" THEN EmptyFrame ELSE series_of(m, series_id)

\* what the operation returns of the series it fetched
result_of(name, fetched) ==
    IF name = "get_yahoo_data" THEN fetched[1] ELSE indicators_of(fetched)

\* gold and silver on days 1, 8 and 9, the other Yahoo series on days 8 and 9
QuotedMarket ==
    [treasury |-> Frame(Dated(<<31, 32>>, <<300, 300>>)),
     cpi |-> Frame(Dated(<<1, 31, 32>>, <<30000, 30025, 30025>>)),
     dxy |-> Frame(Dated(<<8, 9>>, <<10000, 10100>>)),
     gold |-> Frame(Dated(<<1, 8, 9>>, <<199900, 200000, 200000>>)),
     silver |-> Frame(Dated(<<1, 8, 9>>, <<2400, 2500, 2500>>)),
     usdinr |-> Frame(Dated(<<8, 9>>, <<8300, 8300>>)),
     vix |-> Frame(Dated(<<8, 9>>, <<1600, 1700>>)),
     sp500 |-> Frame(Dated(<<8, 9>>, <<500000, 500100>>)),
     nifty |-> Frame(Dated(<<8, 9>>, <<2400000, 2400100>>))]

\* the quotes some minutes later: the latest gold price has moved by 1.00
requote(m) ==
    [m EXCEPT !.gold.rows[Len(m.gold.rows)].v = @ + 100]

InitFetching ==
    /\ market = QuotedMarket
    /\ indicators = NoAnalyzer
    /\ signals = <<>>
    /\ op = "DataFetcher"
    /\ ret = None
    /\ first_run = None
    /\ \E answers \in Answers : FetcherConstructed(answers)

\* an operation of the fetcher is called: it has its fetches to make
Begin(name, plan) ==
    /\ call.pc = "idle"
    /\ call.calls < MaxCalls
    /\ call' = [pc |-> "site", plan |-> plan, fetched |-> <<>>, attempt |-> 0,
                calls |-> call.calls + 1]
    /\ op' = name
    /\ ret' = None
    /\ UNCHANGED <<indicators, signals, market, first_run, cache, now, network, fetch, stored>>

\* the get_yahoo_data calls made: gold over the year and over five days,
\* silver over the year, with the retries of the default or one only
Requests ==
    {YahooSite(ENDPOINTS.gold, "1y", "1d", DefaultRetries, 0),
     YahooSite(ENDPOINTS.gold, "5d", "1d", 1, 0),
     YahooSite(ENDPOINTS.silver, "1y", "1d", DefaultRetries, 0)}

CallGetYahooData == \E site \in Requests : Begin("get_yahoo_data", <<site>>)

CallGetMarketIndicators == Begin("get_market_indicators", MarketPlan)

\* the fetch under way returned `result` at time t: the operation goes on to
\* its next fetch, or returns when that was its last
Deliver(result, t) ==
    LET fetched == Append(call.fetched, result)
        plan == Tail(call.plan)
    IN /\ now' = t
       /\ call' = [call EXCEPT !.pc = IF Len(plan) = 0 THEN "idle" ELSE "site",
                               !.plan = plan,
                               !.fetched = IF Len(plan) = 0 THEN <<>> ELSE fetched,
                               !.attempt = 0]
       /\ ret' = IF Len(plan) = 0 THEN result_of(op, fetched) ELSE ret
       /\ op' = op

\* the get_yahoo_data call of a site, as the history variable fetch holds it
Fetching(site, t, hit, outcomes, data, done) ==
    [ticker |-> site.ticker, period |-> site.period, interval |-> site.interval,
     retries |-> site.retries, at |-> t, hit |-> hit, outcomes |-> outcomes,
     data |-> data, done |-> done]

\* the next fetch of the operation: a FRED request, or the cache lookup of
\* get_yahoo_data, which returns the cached series or enters the retry loop
FetchSite ==
    /\ call.pc = "site"
    /\ LET site == Head(call.plan)
           t == now + site.sleep
           key == cache_key(site.ticker, site.period, site.interval)
       IN IF site.source = "fred"
          THEN /\ Deliver(get_fred_data(market, site.ticker, network.answers), t)
               /\ UNCHANGED <<cache, fetch, stored>>
          ELSE IF cached(cache, key, t)
          THEN /\ Deliver(cache[key].cached_data, t)
               /\ fetch' = Fetching(site, t, TRUE, <<>>, cache[key].cached_data, TRUE)
               /\ UNCHANGED <<cache, stored>>
          ELSE IF site.retries <= 0
          THEN /\ Deliver(EmptyFrame, t)
               /\ fetch' = Fetching(site, t, FALSE, <<>>, EmptyFrame, TRUE)
               /\ UNCHANGED <<cache, stored>>
          ELSE /\ call' = [call EXCEPT !.pc = "attempt", !.attempt = 0]
               /\ now' = t
               /\ fetch' = Fetching(site, t, FALSE, <<>>, EmptyFrame, FALSE)
               /\ UNCHANGED <<cache, stored, op, ret>>
    /\ UNCHANGED <<indicators, signals, market, first_run, network>>

\* the attempt found the series: it is cached and returned
Fetched(site, result, t) ==
    /\ cache' = cache_put(cache, cache_key(site.ticker, site.period, site.interval), result, t)
    /\ stored' = (<<site.ticker, site.period, site.interval>> :> [data |-> result, time |-> t])
                     @@ stored
    /\ fetch' = [fetch EXCEPT !.outcomes = Append(@, "data"), !.data = result, !.done = TRUE]
    /\ Deliver(result, t)

\* the attempt found nothing or raised: the next attempt after three
\* seconds, or an empty frame after the last
Failed(site, outcome, t) ==
    /\ IF last_attempt(call.attempt, site.retries)
       THEN /\ fetch' = [fetch EXCEPT !.outcomes = Append(@, outcome), !.done = TRUE]
            /\ Deliver(EmptyFrame, t)
       ELSE /\ fetch' = [fetch EXCEPT !.outcomes = Append(@, outcome)]
            /\ call' = [call EXCEPT !.attempt = @ + 1]
            /\ now' = t + retry_delay
            /\ UNCHANGED <<op, ret>>
    /\ UNCHANGED <<cache, stored>>

\* one pass of the loop of get_yahoo_data: the backoff, Ticker.history, and
\* yf.download a second later when history returned nothing
YahooAttempt ==
    /\ call.pc = "attempt"
    /\ LET site == Head(call.plan)
           hist == history(market, site.ticker, site.period)
           at_history == now + backoff(call.attempt)
           at_download == at_history + download_delay
       IN IF network.answers = "error" THEN Failed(site, "raised", at_history)
          ELSE IF network.answers = "history" /\ ~empty(hist) THEN Fetched(site, hist, at_history)
          ELSE IF network.answers = "download" /\ ~empty(hist) THEN Fetched(site, hist, at_download)
          ELSE Failed(site, "no data", at_download)
    /\ UNCHANGED <<indicators, signals, market, first_run, network>>

\* the sources change how they answer, while an operation is under way
NetworkChanges ==
    /\ call.pc # "idle"
    /\ network.changes < MaxChanges
    /\ \E answers \in Answers \ {network.answers} :
          network' = [answers |-> answers, changes |-> network.changes + 1]
    /\ UNCHANGED <<indicators, signals, op, ret, market, first_run, cache, now, call, fetch, stored>>

\* time passes between two operations, and the quotes move
TimePasses ==
    /\ call.pc = "idle"
    /\ \E wait \in Waits :
          /\ now + wait <= MaxClock
          /\ now' = now + wait
    /\ market' = requote(market)
    /\ UNCHANGED <<indicators, signals, op, ret, first_run, cache, network, call, fetch, stored>>

NextYahoo ==
    \/ CallGetYahooData
    \/ FetchSite
    \/ YahooAttempt
    \/ NetworkChanges
    \/ TimePasses

SpecYahoo == InitFetching /\ [][NextYahoo]_vars

\* the fetcher runs on: a lookup or a pass of the loop that can be made is made
SpecYahooLive == SpecYahoo /\ WF_vars(FetchSite) /\ WF_vars(YahooAttempt)

NextMarket ==
    \/ CallGetMarketIndicators
    \/ FetchSite
    \/ YahooAttempt
    \/ NetworkChanges
    \/ TimePasses

SpecMarket == InitFetching /\ [][NextMarket]_vars

(***************************************************************************)
(* Properties                                                               *)
(***************************************************************************)
Signals == {"BULLISH", "BEARISH", "NEUTRAL"}

FactorSet == {Factors[i] : i \in 1..Len(Factors)}

\* the number of the six factors whose entry carries the signal sig
Tally(checklist, sig) ==
    SeqSum([i \in 1..Len(Factors) |-> IF checklist[Factors[i]].signal = sig THEN 1 ELSE 0])

\* a result without a number: the key is absent or holds None
NoNumber(r, key) == key \in DOMAIN r => r[key] = None

\* C1: get_dip_detection_score returns GOOD ENTRY POINT when at least three
\* of the six checklist signals are BULLISH, otherwise AVOID / WAIT when at
\* least three are BEARISH, otherwise NEUTRAL / WATCH; three BULLISH against
\* three BEARISH is GOOD ENTRY POINT.
C1_RecommendationRule ==
    op = "get_dip_detection_score" =>
        LET b == Tally(ret.checklist, "BULLISH")
            r == Tally(ret.checklist, "BEARISH")
        IN /\ b >= 3 => ret.recommendation = "GOOD ENTRY POINT"
           /\ b < 3 /\ r >= 3 => ret.recommendation = "AVOID / WAIT"
           /\ b < 3 /\ r < 3 => ret.recommendation = "NEUTRAL / WATCH"

\* a 3 / 3 tie was scored
C1_TieScored ==
    /\ op = "get_dip_detection_score"
    /\ Tally(ret.checklist, "BULLISH") = 3
    /\ Tally(ret.checklist, "BEARISH") = 3
    /\ ret.recommendation = "GOOD ENTRY POINT"

\* C2: whatever series of the bundle are empty or missing,
\* get_dip_detection_score returns a checklist of exactly the six factors,
\* each entry with a signal among BULLISH, BEARISH, NEUTRAL and a status
\* string.
C2_SixEntries ==
    op = "get_dip_detection_score" =>
        /\ DOMAIN ret.checklist = FactorSet
        /\ Cardinality(FactorSet) = 6
        /\ \A f \in FactorSet :
              /\ {"signal", "status"} \subseteq DOMAIN ret.checklist[f]
              /\ ret.checklist[f].signal \in Signals
              /\ ret.checklist[f].status \in STRING

\* a bundle with missing and empty series was scored
C2_ScoredWithMissingSeries ==
    /\ op = "get_dip_detection_score"
    /\ ~indicators.real_yield.present
    /\ ~indicators.vix.present
    /\ ~indicators.gold.present
    /\ ~indicators.gold_silver_ratio.present
    /\ indicators.dxy.present /\ empty(indicators.dxy)
    /\ indicators.usdinr.present /\ ~empty(indicators.usdinr)

\* the series is held by the bundle and has no rows
HeldEmpty(df) == df.present /\ empty(df)

\* C3: each of the six classifiers, on an empty input series (for risk
\* sentiment the VIX series, for divergence the gold or the real-yield
\* series), returns signal NEUTRAL and no number: value (vix, correlation)
\* is absent or None.
C3_EmptyIsNeutral ==
    LET neutral == /\ ret.signal = "NEUTRAL"
                   /\ NoNumber(ret, "value")
                   /\ NoNumber(ret, "vix")
                   /\ "correlation" \notin DOMAIN ret
    IN /\ op = "analyze_real_yield" /\ HeldEmpty(indicators.real_yield) => neutral
       /\ op = "analyze_dxy" /\ HeldEmpty(indicators.dxy) => neutral
       /\ op = "analyze_risk_sentiment" /\ HeldEmpty(indicators.vix) => neutral
       /\ op = "analyze_inr" /\ HeldEmpty(indicators.usdinr) => neutral
       /\ op = "analyze_gold_silver_ratio" /\ HeldEmpty(indicators.gold_silver_ratio) => neutral
       /\ op = "analyze_real_yield_divergence"
            /\ (HeldEmpty(indicators.gold) \/ HeldEmpty(indicators.real_yield)) => neutral

\* the ratio classifier ran on an empty ratio series
C3_ClassifiedEmpty ==
    /\ op = "analyze_gold_silver_ratio"
    /\ HeldEmpty(indicators.gold_silver_ratio)
    /\ ret.signal = "NEUTRAL"
    /\ ret.value = None

\* the latest observation of a series
Latest(df) == df.rows[Len(df.rows)].v

\* the observation `back` positions before the latest
Back(df, back) == df.rows[Len(df.rows) - back].v

\* the reference the trend classifiers take: the 30th observation counted
\* back from the latest one included (29 positions before it) when the
\* series has more than 30 rows, the first observation otherwise
Reference(df) == IF Len(df.rows) >= 31 THEN Back(df, 29) ELSE df.rows[1].v

\* 100 (a - b) / b in hundredths of a percent
Percent(a, b) == Div(10000 * (a - b), b)

C5_ReferenceThirtyBack ==
    /\ op = "analyze_real_yield" /\ Len(indicators.real_yield.rows) >= 31 =>
          ret.change = Flt(Latest(indicators.real_yield) - Back(indicators.real_yield, 30))
    /\ op = "analyze_dxy" /\ Len(indicators.dxy.rows) >= 31 =>
          ret.change_pct = Percent(Latest(indicators.dxy), Back(indicators.dxy, 30))
    /\ op = "analyze_inr" /\ Len(indicators.usdinr.rows) >= 31 =>
          ret.change_pct = Percent(Latest(indicators.usdinr), Back(indicators.usdinr, 30))

\* C6: with the three risk series held by the bundle and VIX not empty, the
\* risk-sentiment signal is BEARISH for a latest VIX below 13, BULLISH above
\* 20 and NEUTRAL from 13 to 20, both ends included.
C6_VixBands ==
    op = "analyze_risk_sentiment"
        /\ indicators.vix.present /\ indicators.sp500.present /\ indicators.nifty.present
        /\ ~empty(indicators.vix) =>
        LET level == Latest(indicators.vix)
        IN /\ level < 1300 => ret.signal = "BEARISH"
           /\ level > 2000 => ret.signal = "BULLISH"
           /\ 1300 <= level /\ level <= 2000 => ret.signal = "NEUTRAL"
           /\ ret.vix = Flt(level)

\* a VIX of exactly 13 was classified beside an S&P 500 rally
C6_VixAtThirteen ==
    /\ op = "analyze_risk_sentiment"
    /\ ~empty(indicators.vix)
    /\ Latest(indicators.vix) = 1300
    /\ ret.signal = "NEUTRAL"
    /\ ret.status = "VIX neutral | S&P rallying - Bearish for gold"

\* C7: the gold-silver ratio classifier returns BEARISH for a latest ratio
\* above 85, BULLISH below 65, NEUTRAL from 65 to 85 inclusive, and its value
\* is the latest ratio.
C7_RatioBands ==
    op = "analyze_gold_silver_ratio" /\ ~empty(indicators.gold_silver_ratio) =>
        LET ratio == Latest(indicators.gold_silver_ratio)
        IN /\ GT(ratio, 8500) => ret.signal = "BEARISH"
           /\ LT(ratio, 6500) => ret.signal = "BULLISH"
           /\ ratio.k = "num" /\ ~GT(ratio, 8500) /\ ~LT(ratio, 6500) => ret.signal = "NEUTRAL"
           /\ ret.value = ratio

\* a ratio of exactly 85 was classified
C7_RatioAtEightyFive ==
    /\ op = "analyze_gold_silver_ratio"
    /\ ~empty(indicators.gold_silver_ratio)
    /\ EQ(Latest(indicators.gold_silver_ratio), 8500)
    /\ ret.signal = "NEUTRAL"
    /\ EQ(ret.value, 8500)

C10_CriticalAboveTwo ==
    op = "analyze_real_yield" /\ ~empty(indicators.real_yield) =>
        /\ ret.critical = (Latest(indicators.real_yield) > 200)
        /\ Latest(indicators.real_yield) = 200 => ~ret.critical
        /\ Latest(indicators.real_yield) = 201 => ret.critical

\* a falling real yield at 2.01 was flagged critical
C10_CriticalWhileBullish ==
    /\ op = "analyze_real_yield"
    /\ ~empty(indicators.real_yield)
    /\ Latest(indicators.real_yield) = 201
    /\ ret.signal = "BULLISH"
    /\ ret.critical

\* the value a series holds on day d
ValueOn(df, d) == df.rows[CHOOSE i \in 1..Len(df.rows) : df.rows[i].d = d].v

\* the analyzer classified a real yield fetched on a day of a 10-year yield
\* of 3.00 percent and an inflation of 1.00 percent
C11_ThreeLessOne ==
    /\ op = "analyze_real_yield"
    /\ ~empty(indicators.real_yield)
    /\ LET day == indicators.real_yield.rows[Len(indicators.real_yield.rows)].d
       IN /\ ValueOn(market.treasury, day) = 300
          /\ EQ(ValueOn(inflation(market.cpi), day), 100)

\* C11 as claimed: with a treasury yield of 3.0 percent and a CPI-derived
\* inflation of 1.0 percent the real yield is 2.0 and the critical flag is
\* true.
C11_CriticalAtTwo ==
    C11_ThreeLessOne => EQ(ret.value, 200) /\ ret.critical

\* C11 as amended: with a treasury yield of 3.0 percent and a CPI-derived
\* inflation of 1.0 percent the real yield is 2.0 and the critical flag is
\* false, a level of exactly 2.0 not being above 2.0.
C11_NotCriticalAtTwo ==
    C11_ThreeLessOne => EQ(ret.value, 200) /\ ~ret.critical

\* a real yield of 3.0 - 1.0 was classified: 2.0, not critical
C11_TwoClassified ==
    /\ C11_ThreeLessOne
    /\ EQ(ret.value, 200)
    /\ ~ret.critical

\* the bundle with its S&P 500 and NIFTY series emptied
WithoutEquity(ind) == [ind EXCEPT !.sp500 = EmptyFrame, !.nifty = EmptyFrame]

HoldsRiskSeries(ind) == ind.vix.present /\ ind.sp500.present /\ ind.nifty.present

\* C12: with the three risk series held by the bundle, the risk-sentiment
\* result is the one of the same bundle with the S&P 500 and NIFTY series
\* emptied in everything but the status text, so any two bundles that differ
\* only in those two series (empty, short or long) give the same signal, and
\* the dip score counts the same BULLISH and BEARISH entries.
C12_EquityChangesStatusOnly ==
    /\ op = "analyze_risk_sentiment" /\ HoldsRiskSeries(indicators) =>
          LET alone == analyze_risk_sentiment(WithoutEquity(indicators))
          IN /\ ret.signal = alone.signal
             /\ [ret EXCEPT !.status = ""] = [alone EXCEPT !.status = ""]
    /\ op = "get_dip_detection_score" /\ HoldsRiskSeries(indicators) =>
          LET alone == get_dip_detection_score(WithoutEquity(indicators))
          IN /\ ret.checklist["Risk Sentiment"].signal = alone.checklist["Risk Sentiment"].signal
             /\ ret.bullish_count = alone.bullish_count
             /\ ret.bearish_count = alone.bearish_count

\* a VIX of 21 beside a rallying S&P 500 and a short NIFTY series was
\* classified BULLISH, the rally showing in the status only
C12_RallyBesideHighVix ==
    /\ op = "analyze_risk_sentiment"
    /\ ~empty(indicators.vix)
    /\ Latest(indicators.vix) = 2100
    /\ indicators.sp500 = EquityRally
    /\ Len(indicators.nifty.rows) = 2
    /\ ret.signal = "BULLISH"
    /\ ret.status = "VIX high - Risk-OFF, bullish for gold | S&P rallying - Bearish for gold"

\* the daily grid of a series: every day from its first observation to its
\* last
Grid(df) == df.rows[1].d .. df.rows[Len(df.rows)].d

\* the days the daily grids of two series share
CommonDays(a, b) == Grid(a) \cap Grid(b)

\* the latest observation of a series on or before day d
FilledAt(df, d) ==
    LET on == {i \in 1..Len(df.rows) : df.rows[i].d <= d}
    IN df.rows[CHOOSE i \in on : \A j \in on : j <= i].v

\* gold and real yield on the last thirty days both daily grids hold
LastThirty(gold, real_yield) ==
    LET last == CHOOSE d \in CommonDays(gold, real_yield) :
                    \A e \in CommonDays(gold, real_yield) : e <= d
    IN [i \in 1..30 |-> [x |-> FilledAt(gold, last - 30 + i),
                         y |-> FilledAt(real_yield, last - 30 + i)]]

TooFewDays(gold, real_yield) ==
    \/ empty(gold)
    \/ empty(real_yield)
    \/ Cardinality(CommonDays(gold, real_yield)) < 30

\* C13: with the gold and real-yield series held by the bundle, the
\* divergence classifier returns NEUTRAL with the status No Data or
\* Insufficient data for correlation, and no correlation, whenever one of
\* the two series is empty or their daily grids share fewer than 30 days;
\* with 30 or more shared days its correlation is the one of the forward
\* filled values on the last 30 of them.
C13_ThirtyAlignedRows ==
    op = "analyze_real_yield_divergence"
        /\ indicators.gold.present /\ indicators.real_yield.present =>
        IF TooFewDays(indicators.gold, indicators.real_yield)
        THEN /\ ret.signal = "NEUTRAL"
             /\ ret.status \in {"No Data", "Insufficient data for correlation"}
             /\ "correlation" \notin DOMAIN ret
        ELSE /\ "correlation" \in DOMAIN ret
             /\ ret.correlation = corr(LastThirty(indicators.gold, indicators.real_yield))

\* two series sharing 20 days were classified, and two sharing exactly 30
C13_TwentyDays ==
    /\ op = "analyze_real_yield_divergence"
    /\ ~empty(indicators.gold)
    /\ ~empty(indicators.real_yield)
    /\ Len(indicators.gold.rows) = 31
    /\ Cardinality(CommonDays(indicators.gold, indicators.real_yield)) = 20
    /\ ret.status = "Insufficient data for correlation"
    /\ ret.signal = "NEUTRAL"

\* C14: the divergence classifier returns BULLISH exactly when it computed a
\* correlation and that correlation is greater than -0.3, NEUTRAL otherwise
\* (a correlation of exactly -0.3 or undefined included), and never BEARISH.
C14_BullishAboveCutoff ==
    op = "analyze_real_yield_divergence" =>
        /\ ret.signal \in {"BULLISH", "NEUTRAL"}
        /\ ret.signal = "BULLISH" <=>
              /\ "correlation" \in DOMAIN ret
              /\ ret.correlation.k = "corr"
              /\ \/ ret.correlation.n >= 0
                 \/ 100 * ret.correlation.n * ret.correlation.n < 9 * ret.correlation.dn

\* a correlation of exactly -0.3 was classified NEUTRAL
C14_AtCutoff ==
    /\ op = "analyze_real_yield_divergence"
    /\ "correlation" \in DOMAIN ret
    /\ ret.correlation.k = "corr"
    /\ ret.correlation.n < 0
    /\ 100 * ret.correlation.n * ret.correlation.n = 9 * ret.correlation.dn
    /\ ret.signal = "NEUTRAL"

\* C15 as claimed: when the denominator of a derived ratio is absent (the
\* silver series fetched is empty or its latest price is zero, or the
\* lookback value of DXY or of USD/INR is zero) the classifier returns
\* NEUTRAL with a status string, never BULLISH or BEARISH.
C15_AbsentDenominatorIsNeutral ==
    LET neutral == ret.signal = "NEUTRAL" /\ ret.status \in STRING
    IN /\ op = "analyze_gold_silver_ratio"
            /\ (empty(market.silver) \/ Latest(market.silver) = 0) => neutral
       /\ op = "analyze_dxy" /\ ~empty(indicators.dxy)
            /\ Reference(indicators.dxy) = 0 => neutral
       /\ op = "analyze_inr" /\ ~empty(indicators.usdinr)
            /\ Reference(indicators.usdinr) = 0 => neutral

\* a series too short to supply the 30-period lookback
Short(df) == Len(df.rows) >= 1 /\ Len(df.rows) <= 30

\* C16 as claimed: on a series of 1 to 30 observations the trend classifiers
\* (real yield, DXY, USD/INR) measure the latest value against the first
\* observation and return it as a number; on a single observation the trend
\* is zero and the signal NEUTRAL.
C16_FirstObservationReference ==
    /\ op = "analyze_real_yield" /\ Short(indicators.real_yield) =>
          /\ ret.change = Flt(Latest(indicators.real_yield) - indicators.real_yield.rows[1].v)
          /\ ret.value = Flt(Latest(indicators.real_yield))
          /\ Len(indicators.real_yield.rows) = 1 =>
                EQ(ret.change, 0) /\ ret.signal = "NEUTRAL"
    /\ op = "analyze_dxy" /\ Short(indicators.dxy) =>
          /\ ret.change_pct = Percent(Latest(indicators.dxy), indicators.dxy.rows[1].v)
          /\ ret.value = Flt(Latest(indicators.dxy))
          /\ Len(indicators.dxy.rows) = 1 =>
                EQ(ret.change_pct, 0) /\ ret.signal = "NEUTRAL"
    /\ op = "analyze_inr" /\ Short(indicators.usdinr) =>
          /\ ret.change_pct = Percent(Latest(indicators.usdinr), indicators.usdinr.rows[1].v)
          /\ ret.value = Flt(Latest(indicators.usdinr))
          /\ Len(indicators.usdinr.rows) = 1 =>
                EQ(ret.change_pct, 0) /\ ret.signal = "NEUTRAL"

\* C17: in every result of get_dip_detection_score bullish_count and
\* bearish_count are the numbers of checklist entries with signal BULLISH
\* and BEARISH, their sum is at most 6, the size of the checklist, and
\* 6 - bullish_count - bearish_count is not negative and is the number of
\* NEUTRAL entries.
C17_CountsTallyEntries ==
    op = "get_dip_detection_score" =>
        /\ ret.bullish_count = Tally(ret.checklist, "BULLISH")
        /\ ret.bearish_count = Tally(ret.checklist, "BEARISH")
        /\ Cardinality(DOMAIN ret.checklist) = 6
        /\ ret.bullish_count + ret.bearish_count <= 6
        /\ 6 - ret.bullish_count - ret.bearish_count >= 0
        /\ 6 - ret.bullish_count - ret.bearish_count = Tally(ret.checklist, "NEUTRAL")

\* a checklist of four BULLISH and two BEARISH entries was scored: no
\* NEUTRAL entry, a neutral count of 0
C17_NoNeutralEntry ==
    /\ op = "get_dip_detection_score"
    /\ ret.bullish_count = 4
    /\ ret.bearish_count = 2
    /\ Tally(ret.checklist, "NEUTRAL") = 0

Days(df) == {df.rows[i].d : i \in 1..Len(df.rows)}

Within(w, target, tol) ==
    /\ ~WideLess(w, Wide(target - tol))
    /\ ~WideLess(Wide(target + tol), w)

\* a row of the India price for gold at 2000.00 and USD/INR at 83.00
PricedAtTwoThousand(r) ==
    /\ ValueOn(market.gold, r.d) = 200000
    /\ ValueOn(market.usdinr, r.d) = 8300

\* C20 as claimed: with gold at 2000 USD per troy ounce and USD/INR at 83,
\* gold_usd_10g is 643.10 and gold_inr is 60,339.0, each within 0.5.
C20_PriceAsStated ==
    op = "calculate_indian_gold_price" =>
        \A i \in 1..Len(ret.rows) :
            PricedAtTwoThousand(ret.rows[i]) =>
                /\ Within(ret.rows[i].gold_usd_10g, 64310, 50)
                /\ Within(ret.rows[i].gold_inr, 6033900, 50)

\* C20 as amended: with gold at 2000 USD per troy ounce and USD/INR at 83,
\* gold_usd_10g is 643.01 and gold_inr is 60,308.3, each within 0.5.
C20_PriceComputed ==
    op = "calculate_indian_gold_price" =>
        \A i \in 1..Len(ret.rows) :
            PricedAtTwoThousand(ret.rows[i]) =>
                /\ Within(ret.rows[i].gold_usd_10g, 64301, 50)
                /\ Within(ret.rows[i].gold_inr, 6030830, 50)

\* gold at 2000.00 and USD/INR at 83.00 were priced at 60,308.3 per 10 g
C20_TwoThousandPriced ==
    /\ op = "calculate_indian_gold_price"
    /\ \E i \in 1..Len(ret.rows) :
          /\ PricedAtTwoThousand(ret.rows[i])
          /\ Within(ret.rows[i].gold_usd_10g, 64301, 50)
          /\ Within(ret.rows[i].gold_inr, 6030830, 50)
          /\ ~Within(ret.rows[i].gold_inr, 6033900, 50)

\* the rows of a frame run through increasing days
Ascending(rows) == \A i, j \in 1..Len(rows) : i < j => rows[i].d < rows[j].d

\* a daily frame holds the days of the grid of df and no other, each with
\* the latest observation of df on or before it
ForwardFilled(daily, df) ==
    /\ Ascending(daily.rows)
    /\ Days(daily) = Grid(df)
    /\ \A i \in 1..Len(daily.rows) :
          /\ daily.rows[i].d >= df.rows[1].d
          /\ daily.rows[i].v = FilledAt(df, daily.rows[i].d)
          /\ \E j \in 1..Len(df.rows) :
                /\ df.rows[j].d <= daily.rows[i].d
                /\ df.rows[j].v = daily.rows[i].v
                /\ \A k \in 1..Len(df.rows) :
                      df.rows[k].d <= daily.rows[i].d => df.rows[k].d <= df.rows[j].d

\* C21: the daily resampling of the gold and of the real-yield series the
\* divergence classifier aligns holds every day from the first observation
\* to the last and no day before the first, each with the most recent
\* observation on or before it (no later one, no interpolated value), and
\* their inner join holds exactly the days of both daily grids, with the two
\* forward-filled values of the day.
C21_ForwardFillOnly ==
    op = "analyze_real_yield_divergence"
        /\ indicators.gold.present /\ indicators.real_yield.present
        /\ ~empty(indicators.gold) /\ ~empty(indicators.real_yield) =>
        LET gold_daily == resample(indicators.gold)
            real_yield_daily == resample(indicators.real_yield)
            merged == merge(gold_daily, real_yield_daily)
        IN /\ ForwardFilled(gold_daily, indicators.gold)
           /\ ForwardFilled(real_yield_daily, indicators.real_yield)
           /\ Ascending(merged)
           /\ {merged[i].d : i \in 1..Len(merged)}
                 = CommonDays(indicators.gold, indicators.real_yield)
           /\ \A i \in 1..Len(merged) :
                 /\ merged[i].x = FilledAt(indicators.gold, merged[i].d)
                 /\ merged[i].y = FilledAt(indicators.real_yield, merged[i].d)

\* a gold series lacking days 13, 14, 20 and 21 was aligned with a real
\* yield observed on days 3, 7 and 30: day 14 holds the gold of day 12, days
\* 3 to 6 the yield of day 3, and the join runs from day 3 to day 30
C21_GapsFilledForward ==
    /\ op = "analyze_real_yield_divergence"
    /\ Days(indicators.gold) = (1..31) \ {13, 14, 20, 21}
    /\ Days(indicators.real_yield) = {3, 7, 30}
    /\ LET gold_daily == resample(indicators.gold)
           real_yield_daily == resample(indicators.real_yield)
           merged == merge(gold_daily, real_yield_daily)
       IN /\ Len(gold_daily.rows) = 31
          /\ ValueOn(gold_daily, 14) = ValueOn(indicators.gold, 12)
          /\ ValueOn(real_yield_daily, 6) = 200
          /\ ValueOn(real_yield_daily, 7) = 201
          /\ Len(merged) = 28
          /\ merged[1].d = 3
          /\ merged[28].d = 30

\* the days the percent change of the CPI looks back, and the factor that
\* annualizes it
InflationPeriods(cpi) == IF Len(cpi.rows) >= 12 THEN 365 ELSE 30

InflationFactor(cpi) == IF Len(cpi.rows) >= 12 THEN 1 ELSE 12

\* the inflation of day d is defined: the daily-filled CPI holds the day and
\* the day the change looks back to
InflationDefined(cpi, d) ==
    /\ d \in Grid(cpi)
    /\ d - InflationPeriods(cpi) \in Grid(cpi)

\* C22: calculate_real_yield returns an empty series when the treasury or
\* the CPI series is empty; otherwise one row for each treasury date with a
\* defined inflation and no other row (none at all when there is no such
\* date), holding the treasury yield less the inflation, the inflation being
\* the percent change of the daily-filled CPI against its value 365 days
\* earlier when there are 12 CPI observations or more, and the percent change
\* over 30 days times 12 when there are fewer.
C22_RealYieldOfInflation ==
    op = "calculate_real_yield" =>
        IF empty(market.treasury) \/ empty(market.cpi) THEN ret = EmptyFrame
        ELSE /\ ret.present
             /\ Ascending(ret.rows)
             /\ Days(ret) = {d \in Days(market.treasury) : InflationDefined(market.cpi, d)}
             /\ \A i \in 1..Len(ret.rows) :
                   LET d == ret.rows[i].d
                       current == FilledAt(market.cpi, d)
                       before == FilledAt(market.cpi, d - InflationPeriods(market.cpi))
                   IN ret.rows[i].v * before
                          = ValueOn(market.treasury, d) * before
                              - (current - before) * 100 * 100 * InflationFactor(market.cpi)

\* twelve CPI observations that span 366 days, the last 1 percent above the
\* first, gave one real yield, on day 366: 3.00 less 1.00
C22_YearOverYearOfTwelve ==
    /\ op = "calculate_real_yield"
    /\ Len(market.cpi.rows) = 12
    /\ Days(market.treasury) = {30, 31, 32, 366}
    /\ ValueOn(market.treasury, 366) = 300
    /\ Len(ret.rows) = 1
    /\ ret.rows[1].d = 366
    /\ ret.rows[1].v = 200

\* the 30-period percent change of an index: the latest observation against
\* the one 30 positions before it, or against the first observation when the
\* series is too short for that
ThirtyPeriodChange(df) ==
    Percent(Latest(df), IF Len(df.rows) >= 31 THEN Back(df, 30) ELSE df.rows[1].v)

\* the rally note of an index, due when its series is not empty and its
\* change exceeds +5 percent
RallyNoteDue(df, change, note) ==
    IF ~empty(df) /\ GT(change, 500) THEN <<note>> ELSE <<>>

\* the risk-sentiment status made of the note of the latest VIX and of the
\* rally notes due for the two changes
StatusWithNotes(ind, sp_change, nifty_change) ==
    LET notes == (IF empty(ind.vix) THEN <<>> ELSE <<VixNote(Latest(ind.vix))>>)
                    \o RallyNoteDue(ind.sp500, sp_change, "S&P rallying - Bearish for gold")
                    \o RallyNoteDue(ind.nifty, nifty_change, "NIFTY rallying - Bearish for gold")
    IN IF Len(notes) = 0 THEN "No clear risk sentiment" ELSE Join(notes)

\* C23 as claimed: for each of S&P 500 and NIFTY the risk-sentiment status
\* holds the rally note of the index exactly when its 30-period percent
\* change exceeds +5, the change of a series too short for the lookback being
\* measured against its first observation; the signal is the one of the VIX.
C23_RallyNoteOnThirtyPeriodChange ==
    op = "analyze_risk_sentiment" /\ HoldsRiskSeries(indicators) =>
        /\ ret.status = StatusWithNotes(indicators,
                                        ThirtyPeriodChange(indicators.sp500),
                                        ThirtyPeriodChange(indicators.nifty))
        /\ ret.signal = IF empty(indicators.vix) THEN "NEUTRAL"
                        ELSE VixSignal(Latest(indicators.vix))

\* the (ticker, period, interval) of the latest get_yahoo_data call
Asked == <<fetch.ticker, fetch.period, fetch.interval>>

\* the series Yahoo has held for a ticker and a period
Served(ticker, period) ==
    {history(m, ticker, period) :
        m \in {QuotedMarket, requote(QuotedMarket), requote(requote(QuotedMarket))}}

\* the cache lookup of a get_yahoo_data call, made at time t of a fetcher in
\* which `recent` tells whether a series was stored for the same (ticker,
\* period, interval) less than 300 seconds before: the call is served from
\* the cache exactly then, with that series and without a network attempt
LookupServes(site, t) ==
    LET asked == <<site.ticker, site.period, site.interval>>
        recent == /\ asked \in DOMAIN stored
                  /\ t - stored[asked].time < 2 * 300
    IN /\ fetch'.hit <=> recent
       /\ fetch'.hit =>
             /\ fetch'.done
             /\ fetch'.outcomes = <<>>
             /\ fetch'.data = stored[asked].data
             /\ stored' = stored
       /\ ~fetch'.hit => (asked \in DOMAIN stored => t - stored[asked].time >= 2 * 300)

\* what a finished get_yahoo_data call returned: the series stored for its
\* own (ticker, period, interval), a series of its ticker and period, when
\* the cache served it or an attempt found it, and an empty frame otherwise,
\* whatever older entry the cache holds
ReturnedOwnSeries ==
    fetch.done =>
        /\ op = "get_yahoo_data" /\ call.pc = "idle" => ret = fetch.data
        /\ IF fetch.hit \/ (Len(fetch.outcomes) > 0
                               /\ fetch.outcomes[Len(fetch.outcomes)] = "data")
           THEN /\ Asked \in DOMAIN stored
                /\ fetch.data = stored[Asked].data
                /\ fetch.data \in Served(fetch.ticker, fetch.period)
                /\ ~empty(fetch.data)
                /\ fetch.hit <=> stored[Asked].time <= fetch.at
           ELSE fetch.data = EmptyFrame

\* C24: every get_yahoo_data call, made directly or by another operation of
\* the fetcher, returns a cached series without a network attempt exactly
\* when a series was stored for the same (ticker, period, interval) less
\* than 300 seconds before its lookup; an entry of 300 seconds or more is not
\* returned, the call returning what it fetches anew or an empty frame, and
\* no series of another ticker, period or interval is returned.
C24_CachedWithinTimeout ==
    [][/\ call.pc = "site" /\ call' # call /\ Head(call.plan).source = "yahoo" =>
             LookupServes(Head(call.plan), now + Head(call.plan).sleep)
       /\ ReturnedOwnSeries']_vars

\* gold was served from the cache 299.5 seconds after it was stored, the
\* quotes having moved since
C24_ServedAtAlmostFiveMinutes ==
    /\ op = "get_yahoo_data"
    /\ call.pc = "idle"
    /\ fetch.done
    /\ fetch.hit
    /\ fetch.ticker = ENDPOINTS.gold
    /\ fetch.at - stored[Asked].time = 599
    /\ ret = stored[Asked].data
    /\ ret # history(market, fetch.ticker, fetch.period)

\* the outcome of the latest attempt of the call
LastOutcome == fetch.outcomes[Len(fetch.outcomes)]

\* the attempts of the get_yahoo_data call under way or made last: no more
\* than retries, none after one that found data, and a result that is the
\* series found or, after retries attempts without data, an empty frame
AttemptsBounded ==
    /\ Len(fetch.outcomes) <= fetch.retries
    /\ \A i \in 1..Len(fetch.outcomes) :
          /\ fetch.outcomes[i] \in {"data", "no data", "raised"}
          /\ fetch.outcomes[i] = "data" => i = Len(fetch.outcomes) /\ fetch.done
    /\ call.pc = "attempt" =>
          /\ ~fetch.done
          /\ Len(fetch.outcomes) = call.attempt
          /\ call.attempt < fetch.retries
    /\ fetch.done /\ ~fetch.hit =>
          IF Len(fetch.outcomes) > 0 /\ LastOutcome = "data"
          THEN /\ ~empty(fetch.data)
               /\ fetch.data \in Served(fetch.ticker, fetch.period)
          ELSE /\ Len(fetch.outcomes) = fetch.retries
               /\ fetch.data = EmptyFrame
    /\ op = "get_yahoo_data" /\ call.pc = "idle" =>
          /\ fetch.done
          /\ ret = fetch.data
          /\ ret.present

\* C25: get_yahoo_data always terminates and returns a series, whatever its
\* attempts raise: it makes at most `retries` attempts (3 by default), stops
\* at the first attempt that finds a non-empty series and returns it, and
\* returns an empty series when every attempt finds no data or raises.
C25_TerminatesWithinRetries ==
    /\ []AttemptsBounded
    /\ (call.pc # "idle") ~> (call.pc = "idle" /\ fetch.done)

\* the third and last attempt of a call found the series after two attempts
\* without data
C25_FoundAtLastAttempt ==
    /\ op = "get_yahoo_data"
    /\ call.pc = "idle"
    /\ fetch.retries = DefaultRetries
    /\ fetch.outcomes = <<"no data", "no data", "data">>
    /\ ~empty(ret)

\* the six results run_full_analysis shows beside the dip score, in the
\* order of the factors
Shown(r) == <<r.real_yield, r.dxy, r.risk_sentiment, r.inr, r.gold_silver_ratio, r.divergence>>

\* C26: in the result of run_full_analysis each of the six top-level results
\* equals the entry of dip_score.checklist of its factor, and the counts and
\* the recommendation of the dip score are those of the signals of the six
\* top-level results.
C26_ShownEqualsChecklist ==
    op = "run_full_analysis" =>
        LET shown == Shown(ret)
            score == ret.dip_score
            bullish == SeqSum([i \in 1..Len(Factors) |->
                                  IF shown[i].signal = "BULLISH" THEN 1 ELSE 0])
            bearish == SeqSum([i \in 1..Len(Factors) |->
                                  IF shown[i].signal = "BEARISH" THEN 1 ELSE 0])
        IN /\ DOMAIN score.checklist = FactorSet
           /\ \A i \in 1..Len(Factors) : score.checklist[Factors[i]] = shown[i]
           /\ score.bullish_count = bullish
           /\ score.bearish_count = bearish
           /\ score.recommendation = IF bullish >= 3 THEN "GOOD ENTRY POINT"
                                     ELSE IF bearish >= 3 THEN "AVOID / WAIT"
                                     ELSE "NEUTRAL / WATCH"

\* a full analysis whose dollar and rupee results differ, with bullish and
\* bearish signals among the six
C26_MixedAnalysis ==
    /\ op = "run_full_analysis"
    /\ ret.dxy.signal = "BEARISH"
    /\ ret.inr.signal = "BULLISH"
    /\ ret.dxy # ret.inr
    /\ ret.dip_score.bullish_count >= 1
    /\ ret.dip_score.bearish_count >= 1
    /\ ret.dip_score.checklist["USD Strength"].signal = "BEARISH"

\* the days the daily-filled series spans, its first and last included
Span(df) == IF empty(df) THEN 0 ELSE df.rows[Len(df.rows)].d - df.rows[1].d + 1

\* consecutive monthly observations
Monthly(df) == \A i \in 2..Len(df.rows) : df.rows[i].d - df.rows[i - 1].d \in 28..31

\* C27: calculate_real_yield returns a non-empty series only if the
\* daily-filled CPI spans more than 365 days when the CPI has 12 observations
\* or more, and more than 30 days when it has fewer; of exactly 12 consecutive
\* monthly CPI observations every inflation value is missing and the real
\* yield is empty.
C27_RealYieldNeedsSpan ==
    op = "calculate_real_yield" =>
        /\ ~empty(ret) => Span(market.cpi) > InflationPeriods(market.cpi)
        /\ Len(market.cpi.rows) = 12 /\ Monthly(market.cpi) =>
              /\ \A i \in 1..Len(inflation(market.cpi).rows) :
                    inflation(market.cpi).rows[i].v = NaN
              /\ ret = EmptyFrame

\* twelve consecutive monthly CPI observations, with treasury yields on
\* days the daily-filled CPI holds, gave no real yield
C27_TwelveMonthsGiveNone ==
    /\ op = "calculate_real_yield"
    /\ Len(market.cpi.rows) = 12
    /\ Monthly(market.cpi)
    /\ Span(market.cpi) = 331
    /\ Days(market.treasury) \cap Grid(market.cpi) # {}
    /\ ret = EmptyFrame

\* what a fetch of the series returns: the series served, or nothing
Returned(series) == {EmptyFrame, series}

\* C28: in every bundle get_market_indicators returns, gold_silver_ratio and
\* indian_gold are empty when the gold entry is empty, and are otherwise
\* computed from the gold series of the bundle, whatever fetches succeed or
\* fail and whatever cache entries expire during the run.
C28_DerivedFromGoldOfBundle ==
    op = "get_market_indicators" /\ call.pc = "idle" =>
        IF empty(ret.gold)
        THEN empty(ret.gold_silver_ratio) /\ empty(ret.indian_gold)
        ELSE /\ ret.gold_silver_ratio
                   \in {calculate_gold_silver_ratio(ret.gold, silver) :
                            silver \in Returned(market.silver)}
             /\ ret.indian_gold
                   \in {calculate_indian_gold_price(ret.gold, usdinr) :
                            usdinr \in Returned(market.usdinr)}

====
